---- MODULE Spec2Model ----
(***************************************************************************)
(* A model of utils/pixel_counter.py: the discovery of image files         *)
(* (list_images), the loader (load_bgr_drop_alpha), the pixel classifier   *)
(* (count_nonwhite_pixels) and the batch loop of main().                   *)
(*                                                                         *)
(* Two specifications are given.  Spec is a run of main() on a small       *)
(* filesystem.  SpecClassify applies the loader and the classifier to      *)
(* every pixel array of a bounded family.                                  *)
(***************************************************************************)
EXTENDS Integers, Sequences, FiniteSets

\* ------------------------------------------------------------------ bounds
\* Largest number of pixels (height * width) of an array of SpecClassify.
MaxPixels == 2
\* Largest number of positional path arguments of a run of main().
MaxArgs == 2
\* Largest number of extensions given with -e/--ext.
MaxExts == 2

\* ------------------------------------------------------------- characters
\* File names are sequences of one-character strings; ord gives the code
\* point, which is what Python's string comparison and str.lower() use.
LowerCase == << "a", "b", "c", "d", "e", "f", "g", "h", "i", "j", "k", "l", "m",
               "n", "o", "p", "q", "r", "s", "t", "u", "v", "w", "x", "y", "z" >>
UpperCase == << "A", "B", "C", "D", "E", "F", "G", "H", "I", "J", "K", "L", "M",
               "N", "O", "P", "Q", "R", "S", "T", "U", "V", "W", "X", "Y", "Z" >>

IndexIn(seq, c) == CHOOSE i \in 1..Len(seq) : seq[i] = c
IsIn(seq, c) == \E i \in 1..Len(seq) : seq[i] = c

\* "e_acute" stands for the one character U+00E9.
ord(c) ==
    IF IsIn(LowerCase, c) THEN 96 + IndexIn(LowerCase, c)
    ELSE IF IsIn(UpperCase, c) THEN 64 + IndexIn(UpperCase, c)
    ELSE IF c = "e_acute" THEN 233
    ELSE 46     \* "."

\* str.lower() on one character, then on a string.
lower_char(c) == IF IsIn(UpperCase, c) THEN LowerCase[IndexIn(UpperCase, c)] ELSE c
lower(s) == [i \in 1..Len(s) |-> lower_char(s[i])]

\* Python's str < str: lexicographic on code points, a proper prefix first.
StrLess(s, t) ==
    \E k \in 1..(Len(t)) :
        /\ \A i \in 1..(k - 1) : i <= Len(s) /\ s[i] = t[i]
        /\ \/ Len(s) = k - 1
           \/ Len(s) >= k /\ ord(s[k]) < ord(t[k])

\* pathlib's PurePath.__lt__: the parts are compared as lists of strings.
PathLess(p, q) ==
    \E k \in 1..(Len(q)) :
        /\ \A i \in 1..(k - 1) : i <= Len(p) /\ p[i] = q[i]
        /\ \/ Len(p) = k - 1
           \/ Len(p) >= k /\ StrLess(p[k], q[k])

\* sorted(set): ascending by PathLess.
RECURSIVE sorted(_)
sorted(S) ==
    IF S = {} THEN << >>
    ELSE LET m == CHOOSE x \in S : \A y \in S \ {x} : PathLess(x, y)
         IN  << m >> \o sorted(S \ {m})

\* ------------------------------------------------------------- filesystem
\* A path is the sequence of its components below the root.
n_d == << "d" >>
n_sub == << "s", "u", "b" >>
n_a_jpg == << "a", ".", "j", "p", "g" >>
n_B_JPG == << "B", ".", "J", "P", "G" >>
n_c_png == << "c", ".", "p", "n", "g" >>
n_e_jpg == << "e", ".", "j", "p", "g" >>
n_z_jpg == << "z", ".", "j", "p", "g" >>
n_nope == << "n", "o", "p", "e" >>
n_eacute_jpg == << "e_acute", ".", "j", "p", "g" >>
n_ro == << "r", "o" >>
n_new == << "n", "e", "w" >>
n_out_csv == << "o", "u", "t", ".", "c", "s", "v" >>
n_eacute_csv == << "e_acute", ".", "c", "s", "v" >>

\* The directories, the regular files and the symbolic links that exist.
Dirs == { << n_d >>, << n_d, n_sub >>, << n_ro >> }
\* The directories in which the user of the process may not create entries.
Unwritable == { << n_ro >> }
RegularFiles == { << n_d, n_a_jpg >>, << n_d, n_B_JPG >>, << n_d, n_c_png >>,
                  << n_d, n_sub, n_e_jpg >>, << n_d, n_sub, n_eacute_jpg >> }
SymLinks == { << n_d, n_z_jpg >> }
LinkTarget(p) == << n_d, n_a_jpg >>

\* Path.resolve(): the absolute path with symbolic links followed.
resolve(p) == IF p \in SymLinks THEN LinkTarget(p) ELSE p
\* Path.is_dir() and Path.is_file() follow symbolic links.
is_dir(p) == resolve(p) \in Dirs
is_file(p) == resolve(p) \in RegularFiles

Entries == Dirs \cup RegularFiles \cup SymLinks
Parent(p) == SubSeq(p, 1, Len(p) - 1)
Name(p) == p[Len(p)]
IsPrefix(p, q) == Len(p) <= Len(q) /\ SubSeq(q, 1, Len(p)) = p

EndsWith(s, suffix) ==
    /\ Len(suffix) <= Len(s)
    /\ SubSeq(s, Len(s) - Len(suffix) + 1, Len(s)) = suffix

\* fnmatch of a name against "*.<ext>" on a POSIX system: case-sensitive.
fnmatch_star_dot(name, ext) == EndsWith(name, << "." >> \o ext)

\* Path.glob("*.<ext>") or, recursive, Path.glob("**/*.<ext>").
glob(p, ext, recursive) ==
    { e \in Entries :
        /\ IF recursive THEN IsPrefix(p, Parent(e)) ELSE Parent(e) = p
        /\ fnmatch_star_dot(Name(e), ext) }

\* The list `files` of list_images before it is deduplicated and sorted.
collected(paths, exts, recursive) ==
    UNION { IF is_dir(paths[i])
              THEN UNION { glob(paths[i], exts[k], recursive) : k \in 1..Len(exts) }
              ELSE IF is_file(paths[i]) THEN { paths[i] } ELSE {}
            : i \in 1..Len(paths) }

\* list_images, and a variant that sorts the paths as collected, without
\* resolve().
list_images_unresolved(paths, exts, recursive) ==
    sorted(collected(paths, exts, recursive))

list_images(paths, exts, recursive) ==
    sorted({ resolve(f) : f \in collected(paths, exts, recursive) })

\* The "[WARN] Not found" lines of list_images, in argument order.
RECURSIVE not_found(_)
not_found(paths) ==
    IF paths = << >> THEN << >>
    ELSE (IF is_dir(Head(paths)) \/ is_file(Head(paths)) THEN << >>
          ELSE << [kind |-> "WARN", text |-> "Not found", name |-> Head(paths)] >>)
         \o not_found(Tail(paths))

\* ------------------------------------------------------------ pixel arrays
\* What cv.imread returns: None, or an array.  An array is a record with its
\* dtype, its number of dimensions (2: grayscale, 3: height x width x
\* channels), its shape and its pixels, px[i][k] the value of channel k of
\* pixel i (row-major).  A 2-dimensional array has one value per pixel.
None == [ok |-> FALSE]
Array(dtype, ndim, h, w, c, px) ==
    [ok |-> TRUE, dtype |-> dtype, ndim |-> ndim, h |-> h, w |-> w, c |-> c, px |-> px]

\* img.size: the number of elements.
size(img) == Cardinality(DOMAIN img.px) * img.c

\* img[:, :, :3]
first_three_channels(img) ==
    [img EXCEPT !.c = 3, !.px = [i \in DOMAIN img.px |-> SubSeq(img.px[i], 1, 3)]]

\* load_bgr_drop_alpha after cv.imread returned `decoded`: raises on None,
\* drops the 4th channel of a 4-channel array.
\* The variant keeps the 4th channel.
load_keep_alpha(decoded) ==
    IF ~decoded.ok THEN [raised |-> TRUE]
    ELSE [raised |-> FALSE, img |-> decoded]

load_bgr_drop_alpha(decoded) ==
    IF ~decoded.ok THEN [raised |-> TRUE]
    ELSE IF decoded.ndim = 3 /\ decoded.c = 4
         THEN [raised |-> FALSE, img |-> first_three_channels(decoded)]
         ELSE [raised |-> FALSE, img |-> decoded]

Cells(img) == { img.px[i][k] : i \in DOMAIN img.px, k \in 1..img.c }
MinOf(S) == CHOOSE m \in S : \A x \in S : m <= x
MaxOf(S) == CHOOSE m \in S : \A x \in S : x <= m

\* cv.normalize(img, None, 0, 255, cv.NORM_MINMAX).astype(np.uint8): the
\* min-max stretch over all channels, a constant array going to 0, then
\* truncation to an integer.
normalize_to_uint8(img) ==
    LET lo == MinOf(Cells(img))
        hi == MaxOf(Cells(img))
        stretch(v) == IF hi = lo THEN 0 ELSE ((v - lo) * 255) \div (hi - lo)
    IN  [img EXCEPT !.dtype = "uint8",
                    !.px = [i \in DOMAIN img.px |->
                               [k \in 1..img.c |-> stretch(img.px[i][k])]]]

\* The threshold compared with the channel values.
\* The variant scales a 16-bit threshold by 256.
thr_times_256(dtype, threshold_8bit) ==
    IF dtype = "uint16" THEN threshold_8bit * 256 ELSE threshold_8bit

effective_thr(dtype, threshold_8bit) ==
    IF dtype = "uint16" THEN threshold_8bit * 257 ELSE threshold_8bit

\* white_mask: img >= thr, over all channels of a pixel (np.all, axis 2).
\* The variant compares with > instead of >=.
white_strictly_above(pixel, thr) == \A k \in 1..Len(pixel) : pixel[k] > thr

is_white(pixel, thr) == \A k \in 1..Len(pixel) : pixel[k] >= thr

\* total: img.size for a 2-dimensional array, shape[0] * shape[1] otherwise.
\* The variant takes img.size whatever the number of dimensions.
total_as_size(img) == size(img)

total_pixels(img) == IF img.ndim = 2 THEN size(img) ELSE img.h * img.w

\* np.count_nonzero(white_mask)
white_count(img, thr) == Cardinality({ i \in DOMAIN img.px : is_white(img.px[i], thr) })

\* count_nonwhite_pixels: <<nonwhite_count, total, bits>>.
count_nonwhite_pixels(img0, threshold_8bit) ==
    LET img == IF img0.dtype \in {"uint8", "uint16"} THEN img0
               ELSE normalize_to_uint8(img0)
        thr == effective_thr(img.dtype, threshold_8bit)
        total == total_pixels(img)
        nonwhite_count == total - white_count(img, thr)
        bits == IF img.dtype = "uint16" THEN 16 ELSE 8
    IN  << nonwhite_count, total, bits >>

\* ------------------------------------------- the arrays of SpecClassify
\* The channel values tried for each dtype.  uint8: the two ends of the
\* range.  uint16: 64249 = 250 * 257 - 1 and the top of the range.  float32:
\* two values whose min-max stretch is exact in floating point.
ChannelValues(dtype) ==
    CASE dtype = "uint8" -> {0, 255}
      [] dtype = "uint16" -> {64249, 65535}
      [] dtype = "float32" -> {0 - 255, 255}

Dtypes == {"uint8", "uint16", "float32"}
\* ndim and channel count: grayscale, BGR, BGRA.
Layouts == { << 2, 1 >>, << 3, 3 >>, << 3, 4 >> }
\* Shapes of at most MaxPixels pixels; a float32 array is never empty here.
Shapes(dtype) ==
    { s \in (0..MaxPixels) \X (0..MaxPixels) :
        /\ s[1] * s[2] <= MaxPixels
        /\ dtype = "float32" => s[1] * s[2] > 0 }

Pixels(dtype, c) == [1..c -> ChannelValues(dtype)]

\* The 2x2 grayscale array [[255,255],[0,0]].
Gray2x2 == Array("uint8", 2, 2, 2, 1, << << 255 >>, << 255 >>, << 0 >>, << 0 >> >>)

\* The arrays of a dtype and a layout: every shape, every choice of values.
ArraysOf(dtype, lay) ==
    UNION { { Array(dtype, lay[1], s[1], s[2], lay[2], px) :
                px \in [1..(s[1] * s[2]) -> Pixels(dtype, lay[2])] }
            : s \in Shapes(dtype) }

\* The thresholds tried: the ends of [0,255], the default, and one value
\* on each side of the range.
Thresholds == {0 - 1, 0, 250, 255, 256}

\* ------------------------------------------------------------------ main()
COMMON_EXTS ==
    << << "j", "p", "g" >>, << "j", "p", "e", "g" >>, << "p", "n", "g" >>,
       << "b", "m", "p" >>, << "t", "i", "f" >>, << "t", "i", "f", "f" >>,
       << "w", "e", "b", "p" >> >>

\* The positional arguments tried: a directory, a symbolic link to a regular
\* file, and a path that does not exist.
ArgPaths == { << n_d >>, << n_d, n_z_jpg >>, << n_nope >> }
\* The extensions tried with -e/--ext (besides the default, COMMON_EXTS).
ExtArgs == { << "j", "p", "g" >>, << "J", "P", "G" >> }
\* The values tried with -t/--threshold: the ends of [0,255], the default,
\* and one value on each side of the range.
MainThresholds == {0 - 1, 0, 250, 255, 256}
\* The values tried with --csv: not given (<< >> stands for None); a file
\* that does not exist yet in the working directory; an existing directory;
\* a path below a regular file; a new file in, and a new directory below, a
\* directory where nothing may be created; a new file whose name is not
\* ASCII.
CsvArgs == { << >>, << n_out_csv >>, << n_d >>,
             << n_d, n_a_jpg, n_out_csv >>,
             << n_ro, n_out_csv >>, << n_ro, n_new, n_out_csv >>,
             << n_eacute_csv >> }

SeqsUpTo(S, lo, hi) == UNION { [1..n -> S] : n \in lo..hi }

\* What cv.imread returns for a discovered file: None (unreadable), or a 1x2
\* 8-bit BGRA array whose first pixel is white and whose alpha values are
\* below any positive threshold.
Bgra8 == Array("uint8", 3, 1, 2, 4, << << 255, 255, 255, 0 >>, << 0, 255, 255, 0 >> >>)
DecodeOutcomes == { None, Bgra8 }

\* --- pct: (nonwhite / total) * 100.0 in IEEE 754 double arithmetic, then
\* Python's fixed-point formatting.  A bit string is a sequence of 0 and 1,
\* most significant bit first; a positive double is [m, e], m a string of 53
\* bits with m[1] = 1, of value m * 2^e.
HasOne(b) == \E i \in 1..Len(b) : b[i] = 1

PowersOfTwo ==
    << 1, 2, 4, 8, 16, 32, 64, 128, 256, 512, 1024, 2048, 4096, 8192, 16384,
       32768, 65536, 131072, 262144, 524288, 1048576, 2097152, 4194304,
       8388608, 16777216, 33554432, 67108864, 134217728, 268435456,
       536870912, 1073741824 >>
Pow2(k) == PowersOfTwo[k + 1]

\* The n low bits of k, and the bits of k without leading zeros.
FixedBits(k, n) == [i \in 1..n |-> (k \div Pow2(n - i)) % 2]
ToBits(k) ==
    IF k = 0 THEN << >>
    ELSE FixedBits(k, CHOOSE n \in 1..31 : k \div Pow2(n - 1) = 1)

\* The integer a bit string of at most 30 bits stands for.
RECURSIVE ToInt(_)
ToInt(b) ==
    IF b = << >> THEN 0
    ELSE IF Len(b) = 1 THEN b[1]
    ELSE LET h == Len(b) \div 2
         IN  ToInt(SubSeq(b, 1, h)) * Pow2(Len(b) - h) + ToInt(SubSeq(b, h + 1, Len(b)))

\* b + 1; one bit longer when b is all ones.
Increment(b) ==
    LET zeros == { i \in 1..Len(b) : b[i] = 0 }
        z == CHOOSE i \in zeros : \A j \in zeros : j <= i
    IN  IF zeros = {} THEN << 1 >> \o [i \in 1..Len(b) |-> 0]
        ELSE [i \in 1..Len(b) |-> IF i < z THEN b[i] ELSE IF i = z THEN 1 ELSE 0]

\* b * c + carry for a small positive integer c, 16 bits of b at a time from
\* the right.
RECURSIVE TimesSmall(_, _, _)
TimesSmall(b, c, carry) ==
    IF Len(b) <= 16 THEN ToBits(ToInt(b) * c + carry)
    ELSE LET acc == ToInt(SubSeq(b, Len(b) - 15, Len(b))) * c + carry
         IN  TimesSmall(SubSeq(b, 1, Len(b) - 16), c, acc \div 65536)
                \o FixedBits(acc % 65536, 16)

\* Round-to-nearest, ties to even, of bits * 2^e (bits[1] = 1, at least 53
\* bits) plus, when sticky, something below its last bit.
RoundToDouble(bits, e, sticky) ==
    LET kept == SubSeq(bits, 1, 53)
        rest == SubSeq(bits, 54, Len(bits))
        half == rest # << >> /\ rest[1] = 1
        below == sticky \/ (rest # << >> /\ HasOne(Tail(rest)))
        up == half /\ (below \/ kept[53] = 1)
        inc == IF up THEN Increment(kept) ELSE kept
    IN  IF Len(inc) = 54
        THEN [m |-> SubSeq(inc, 1, 53), e |-> e + Len(rest) + 1]
        ELSE [m |-> inc, e |-> e + Len(rest)]

\* n * 2^s for the least s with n * 2^s >= t, and that s.
RECURSIVE ShiftedUp(_, _)
ShiftedUp(n, t) == IF n >= t THEN n ELSE ShiftedUp(2 * n, t)
RECURSIVE ShiftCount(_, _)
ShiftCount(n, t) == IF n >= t THEN 0 ELSE 1 + ShiftCount(2 * n, t)

\* The long division of r by t (r < t < 2^29), several bits at a time: the
\* largest number of bits, at most 15, for which the shifted remainder stays
\* below 2^30.
ChunkBits(t) == CHOOSE c \in 1..15 :
                    /\ t <= Pow2(30 - c)
                    /\ \A c2 \in (c + 1)..15 : t > Pow2(30 - c2)

\* (r * 2^k) mod t: the remainder of the division after k bits.
RECURSIVE RemainderAfter(_, _, _)
RemainderAfter(r, t, k) ==
    LET c == ChunkBits(t)
        d == (r * Pow2(c)) % t
    IN  IF k <= c THEN (r * Pow2(k)) % t
        ELSE IF d = 0 THEN 0
        ELSE RemainderAfter(d, t, k - c)

\* The first k bits of r / t after the binary point (all 0 once the
\* remainder is 0).
RECURSIVE QuotientBits(_, _, _)
QuotientBits(r, t, k) ==
    LET c == ChunkBits(t)
        d == (r * Pow2(c)) % t
    IN  IF k <= c THEN FixedBits((r * Pow2(k)) \div t, k)
        ELSE FixedBits((r * Pow2(c)) \div t, c)
                \o (IF d = 0 THEN [i \in 1..(k - c) |-> 0]
                    ELSE QuotientBits(d, t, k - c))

\* nonwhite / total: the double nearest to n / t, for 0 < n <= t.
true_divide(n, t) ==
    LET r0 == ShiftedUp(n, t) - t
    IN  RoundToDouble(<< 1 >> \o QuotientBits(r0, t, 53),
                      0 - (ShiftCount(n, t) + 53),
                      RemainderAfter(r0, t, 53) # 0)

\* x * 100.0
times_100(x) == RoundToDouble(TimesSmall(x.m, 100, 0), x.e, FALSE)

\* The digits of format(x, ".<d>f") as an integer, scale = 10^d: x * scale
\* rounded to an integer on its exact binary value, ties to even.
fixed_point(x, scale) ==
    LET w == TimesSmall(x.m, scale, 0)
        f == 0 - x.e
        len == Len(w)
        int == IF len > f THEN ToInt(SubSeq(w, 1, len - f)) ELSE 0
        half == len >= f /\ w[len - f + 1] = 1
        below == HasOne(SubSeq(w, len - f + 2, len))
    IN  IF half /\ (below \/ int % 2 = 1) THEN int + 1 ELSE int

\* pct = (nonwhite / total) * 100.0 if total else 0.0, as printed with 2
\* and with 4 decimals, in units of the last decimal.
pct_2dp(nonwhite, total) ==
    IF total = 0 \/ nonwhite = 0 THEN 0
    ELSE fixed_point(times_100(true_divide(nonwhite, total)), 100)
pct_4dp(nonwhite, total) ==
    IF total = 0 \/ nonwhite = 0 THEN 0
    ELSE fixed_point(times_100(true_divide(nonwhite, total)), 10000)

\* The encoding of sys.stdout, set by the environment of the process: that
\* of the UTF-8 locale, or "ascii" with PYTHONIOENCODING=ascii.  File names
\* and the text written to files are UTF-8 in both.
StdoutEncodings == { "utf-8", "ascii" }

encodable(c, encoding) == encoding = "utf-8" \/ ord(c) < 128

\* print() of a line with a file name or a path in it to sys.stdout: it
\* raises UnicodeEncodeError on a character the encoding does not have.
print_raises(path, encoding) ==
    \E k \in 1..Len(path) : \E i \in 1..Len(path[k]) :
        ~encodable(path[k][i], encoding)

\* outp.parent.mkdir(parents=True, exist_ok=True): the exception it raises,
\* or "none".  An existing directory is left alone; an existing regular file
\* is a FileExistsError; a missing directory is created after its missing
\* parents, which fails below a regular file and in an unwritable directory.
RECURSIVE mkdir_error(_)
mkdir_error(dir) ==
    IF dir = << >> \/ is_dir(dir) THEN "none"
    ELSE IF is_file(dir) THEN "FileExistsError"
    ELSE LET up == Parent(dir)
         IN  IF is_file(up) THEN "NotADirectoryError"
             ELSE IF up = << >> \/ is_dir(up)
                  THEN (IF up \in Unwritable THEN "PermissionError" ELSE "none")
             ELSE mkdir_error(up)

\* outp.open("w"), the parent being a directory: the exception it raises, or
\* "none".  A new file cannot be created in an unwritable directory.
open_w_error(outp) ==
    IF is_dir(outp) THEN "IsADirectoryError"
    ELSE IF ~is_file(outp) /\ Parent(outp) \in Unwritable THEN "PermissionError"
    ELSE "none"

\* Lines 121-127, the CSV step: the first exception one of its statements
\* raises, or "none".
csv_step_error(outp, encoding) ==
    IF mkdir_error(Parent(outp)) # "none" THEN mkdir_error(Parent(outp))
    ELSE IF open_w_error(outp) # "none" THEN open_w_error(outp)
    ELSE IF print_raises(outp, encoding) THEN "UnicodeEncodeError"
    ELSE "none"

CsvHeader == << "path", "nonwhite_pixels", "total_pixels", "percent_nonwhite", "bit_depth" >>
NotExited == 0 - 1

VARIABLES
    args,            \* the parsed command line
    stdout_encoding, \* the encoding of sys.stdout
    pc,              \* "start", "loop", "exited" ("off" under SpecClassify)
    files,           \* the result of list_images
    idx,             \* position of the for loop in files
    rows,            \* the CSV rows collected so far
    grand_nonwhite,
    grand_total,
    stdout,          \* the lines printed to stdout, in order
    stderr,          \* the lines printed to stderr, in order
    exit_code,       \* the process's exit code, NotExited while running
    csv_file,        \* the CSV file: not written, or its header and rows
    processed,       \* history: the loop's iterations, file and outcome
    decoded,         \* SpecClassify: what cv.imread returned
    threshold_8bit,  \* SpecClassify: the threshold
    loaded,          \* SpecClassify: the result of load_bgr_drop_alpha
    result,          \* SpecClassify: the result of count_nonwhite_pixels
    stage            \* SpecClassify: "decoded", "loaded", "counted", "failed"

mainVars == << args, stdout_encoding, pc, files, idx, rows, grand_nonwhite, grand_total, stdout,
               stderr, exit_code, csv_file, processed >>
classifyVars == << decoded, threshold_8bit, loaded, result, stage >>
vars == << args, stdout_encoding, pc, files, idx, rows, grand_nonwhite, grand_total, stdout,
           stderr, exit_code, csv_file, processed, decoded, threshold_8bit,
           loaded, result, stage >>

ClassifyIdle ==
    /\ decoded = None
    /\ threshold_8bit = 0
    /\ loaded = [raised |-> TRUE]
    /\ result = << >>
    /\ stage = "idle"

Init ==
    /\ args \in [ paths : SeqsUpTo(ArgPaths, 1, MaxArgs),
                  threshold : MainThresholds,
                  ext : {COMMON_EXTS} \cup SeqsUpTo(ExtArgs, 0, MaxExts),
                  recursive : BOOLEAN,
                  csv : CsvArgs ]
    /\ stdout_encoding \in StdoutEncodings
    /\ pc = "start"
    /\ files = << >>
    /\ idx = 1
    /\ rows = << >>
    /\ grand_nonwhite = 0
    /\ grand_total = 0
    /\ stdout = << >>
    /\ stderr = << >>
    /\ exit_code = NotExited
    /\ csv_file = [written |-> FALSE]
    /\ processed = << >>
    /\ ClassifyIdle

\* The threshold check of main().
\* The variant accepts 256.
threshold_at_most_256(t) == 0 <= t /\ t <= 256

threshold_valid(t) == 0 <= t /\ t <= 255

\* [e.lower() for e in args.ext]
lower_all(exts) == [k \in 1..Len(exts) |-> lower(exts[k])]

\* main() up to the loop: validate the threshold, list the files.
Start ==
    /\ pc = "start"
    /\ IF ~threshold_valid(args.threshold)
       THEN /\ stderr' = Append(stderr, [kind |-> "ERROR", text |-> "threshold"])
            /\ exit_code' = 2
            /\ pc' = "exited"
            /\ files' = files
       ELSE LET found == list_images(args.paths, lower_all(args.ext), args.recursive)
                warned == stderr \o not_found(args.paths)
            IN  /\ files' = found
                /\ IF found = << >>
                   THEN /\ stderr' = Append(warned, [kind |-> "ERROR", text |-> "No images"])
                        /\ exit_code' = 1
                        /\ pc' = "exited"
                   ELSE /\ stderr' = warned
                        /\ exit_code' = exit_code
                        /\ pc' = "loop"
    /\ UNCHANGED << args, stdout_encoding, idx, rows, grand_nonwhite, grand_total, stdout, csv_file,
                    processed, classifyVars >>

\* grand_nonwhite += nonwhite, grand_total += total
\* The variant assigns instead of adding.
accumulated_overwrite(grand, value) == value

accumulated(grand, value) == grand + value

\* The position of the loop after an iteration: the try statement is inside
\* the for loop, so a failure goes on to the next file.
\* The variant has the try statement around the loop: a failure ends it.
next_index_try_around_loop(i, raised, n) == IF raised THEN n + 1 ELSE i + 1

next_index(i, raised, n) == i + 1

\* One iteration of the loop, cv.imread returning `d` for files[idx].  The
\* except clause catches what any statement of the try block raises: the
\* load (nothing has been done yet), or the print of the file's line (the
\* totals have been increased already, no row has been appended yet).
IterateWith(d) ==
    LET f == files[idx]
        ld == load_bgr_drop_alpha(d)
        r == count_nonwhite_pixels(ld.img, args.threshold)
        nonwhite == r[1]
        total == r[2]
        bits == r[3]
        warning == [kind |-> "WARN", text |-> "Skipping", name |-> Name(f)]
    IN  /\ pc = "loop"
        /\ idx <= Len(files)
        /\ IF ld.raised
           THEN /\ processed' = Append(processed,
                       [file |-> f, outcome |-> "load_raised", nonwhite |-> 0, total |-> 0])
                /\ idx' = next_index(idx, TRUE, Len(files))
                /\ stderr' = Append(stderr, warning)
                /\ UNCHANGED << rows, grand_nonwhite, grand_total, stdout >>
           ELSE /\ grand_nonwhite' = accumulated(grand_nonwhite, nonwhite)
                /\ grand_total' = accumulated(grand_total, total)
                /\ IF print_raises(<< Name(f) >>, stdout_encoding)
                   THEN /\ processed' = Append(processed,
                               [file |-> f, outcome |-> "print_raised",
                                nonwhite |-> nonwhite, total |-> total])
                        /\ idx' = next_index(idx, TRUE, Len(files))
                        /\ stderr' = Append(stderr, warning)
                        /\ UNCHANGED << rows, stdout >>
                   ELSE /\ processed' = Append(processed,
                               [file |-> f, outcome |-> "ok",
                                nonwhite |-> nonwhite, total |-> total])
                        /\ idx' = next_index(idx, FALSE, Len(files))
                        /\ stdout' = Append(stdout,
                               [kind |-> "file", name |-> Name(f), nonwhite |-> nonwhite,
                                total |-> total, pct |-> pct_2dp(nonwhite, total),
                                bits |-> bits])
                        /\ rows' = Append(rows,
                               [path |-> f, nonwhite |-> nonwhite, total |-> total,
                                pct |-> pct_4dp(nonwhite, total), bits |-> bits])
                        /\ stderr' = stderr
        /\ UNCHANGED << args, stdout_encoding, pc, files, exit_code, csv_file,
                        classifyVars >>

Iterate == \E d \in DecodeOutcomes : IterateWith(d)

\* The lines printed after the loop.
summary(gn, gt, rs) ==
    IF gt > 0
    THEN << [kind |-> "sep"],
            [kind |-> "TOTAL", nonwhite |-> gn, total |-> gt, pct |-> pct_2dp(gn, gt)] >>
    ELSE << >>

\* main() after the loop: the summary, then the CSV step when --csv was given
\* and a row was collected.  Nothing catches what a statement of that step
\* raises: the interpreter prints the traceback and the process ends with
\* exit code 1.  The file has been written when it is the [INFO] print that
\* raises.
Finish ==
    /\ pc = "loop"
    /\ idx > Len(files)
    /\ LET wanted == args.csv # << >> /\ rows # << >>
           error == IF wanted THEN csv_step_error(args.csv, stdout_encoding)
                    ELSE "none"
           opened == wanted /\ mkdir_error(Parent(args.csv)) = "none"
                            /\ open_w_error(args.csv) = "none"
       IN  /\ csv_file' = IF opened
                          THEN [written |-> TRUE, path |-> args.csv,
                                header |-> CsvHeader, rows |-> rows]
                          ELSE csv_file
           /\ stdout' = stdout \o summary(grand_nonwhite, grand_total, rows)
                               \o (IF wanted /\ error = "none"
                                   THEN << [kind |-> "INFO"] >> ELSE << >>)
           /\ stderr' = IF error # "none"
                        THEN Append(stderr, [kind |-> "Traceback", text |-> error])
                        ELSE stderr
           /\ exit_code' = IF error # "none" THEN 1 ELSE 0
    /\ pc' = "exited"
    /\ UNCHANGED << args, stdout_encoding, files, idx, rows, grand_nonwhite,
                    grand_total, processed, classifyVars >>

Next == Start \/ Iterate \/ Finish

Spec == Init /\ [][Next]_vars

\* ------------------------------------------------------------ SpecClassify
MainOff ==
    /\ args = [paths |-> << >>, threshold |-> 0, ext |-> << >>,
               recursive |-> FALSE, csv |-> << >>]
    /\ stdout_encoding = "utf-8"
    /\ pc = "off"
    /\ files = << >>
    /\ idx = 1
    /\ rows = << >>
    /\ grand_nonwhite = 0
    /\ grand_total = 0
    /\ stdout = << >>
    /\ stderr = << >>
    /\ exit_code = NotExited
    /\ csv_file = [written |-> FALSE]
    /\ processed = << >>

InitClassify ==
    /\ MainOff
    /\ \/ decoded \in { None, Gray2x2 }
       \/ \E dtype \in Dtypes, lay \in Layouts : decoded \in ArraysOf(dtype, lay)
    /\ threshold_8bit \in Thresholds
    /\ loaded = [raised |-> TRUE]
    /\ result = << >>
    /\ stage = "decoded"

\* load_bgr_drop_alpha on what cv.imread returned.
Load ==
    /\ stage = "decoded"
    /\ loaded' = load_bgr_drop_alpha(decoded)
    /\ stage' = IF loaded'.raised THEN "failed" ELSE "loaded"
    /\ UNCHANGED << decoded, threshold_8bit, result, mainVars >>

\* count_nonwhite_pixels on the loaded array.
Count ==
    /\ stage = "loaded"
    /\ result' = count_nonwhite_pixels(loaded.img, threshold_8bit)
    /\ stage' = "counted"
    /\ UNCHANGED << decoded, threshold_8bit, loaded, mainVars >>

NextClassify == Load \/ Count

SpecClassify == InitClassify /\ [][NextClassify]_vars

\* ------------------------------------------------------------------ claims
Range(seq) == { seq[i] : i \in 1..Len(seq) }

\* The positions of the lines of a kind in stdout.
LinesOf(kind) == { i \in 1..Len(stdout) : stdout[i].kind = kind }

RECURSIVE SumNonwhite(_)
SumNonwhite(rs) == IF rs = << >> THEN 0 ELSE Head(rs).nonwhite + SumNonwhite(Tail(rs))
RECURSIVE SumTotal(_)
SumTotal(rs) == IF rs = << >> THEN 0 ELSE Head(rs).total + SumTotal(Tail(rs))

\* The files of the iterations so far that went through without raising, in
\* order: the files processed successfully.
RECURSIVE Succeeded(_)
Succeeded(ps) ==
    IF ps = << >> THEN << >>
    ELSE (IF Head(ps).outcome = "ok" THEN << Head(ps).file >> ELSE << >>)
         \o Succeeded(Tail(ps))

\* Every iteration so far either succeeded or raised during load or classify.
OnlyLoadFailures ==
    \A i \in 1..Len(processed) : processed[i].outcome \in { "ok", "load_raised" }

\* C1: at every point of the batch loop and after it, when each file handled
\* so far either succeeded or raised during load or classify, the rows are
\* those of exactly the files processed successfully so far, grand_nonwhite
\* is the sum of their nonwhite_count and grand_total the sum of their
\* total_pixels.
C1_GrandTotalsAreSums ==
    OnlyLoadFailures =>
        /\ [i \in 1..Len(rows) |-> rows[i].path] = Succeeded(processed)
        /\ grand_nonwhite = SumNonwhite(rows)
        /\ grand_total = SumTotal(rows)

\* A finished run with a failed file between two successful ones, each of
\* two pixels, one of them not white.
C1_Witness ==
    /\ pc = "exited" /\ exit_code = 0
    /\ OnlyLoadFailures
    /\ Len(processed) >= 3
    /\ processed[1].outcome = "ok"
    /\ processed[2].outcome = "load_raised"
    /\ processed[3].outcome = "ok"
    /\ Len(rows) = 2
    /\ grand_nonwhite = 2
    /\ grand_total = 4

\* The step just taken was a loop iteration whose load or classify raised.
FailedIteration ==
    /\ Len(processed') = Len(processed) + 1
    /\ processed'[Len(processed')].outcome = "load_raised"

\* C2: an iteration whose load or classify fails leaves grand_nonwhite,
\* grand_total, the CSV rows and stdout unchanged and records one warning;
\* the loop goes on, so that a run that gets past the loop has iterated over
\* every file of the list.
C2_FailureIsolated ==
    /\ [][FailedIteration =>
            /\ grand_nonwhite' = grand_nonwhite
            /\ grand_total' = grand_total
            /\ rows' = rows
            /\ stdout' = stdout
            /\ Len(stderr') = Len(stderr) + 1
            /\ stderr'[Len(stderr')].kind = "WARN"
            /\ pc' = "loop"]_vars
    /\ []((pc = "exited" /\ files # << >>) =>
            [i \in 1..Len(processed) |-> processed[i].file] = files)

\* A finished run whose first file failed to load and whose later file
\* succeeded.
C2_Witness ==
    /\ pc = "exited" /\ exit_code = 0
    /\ Len(processed) >= 2
    /\ processed[1].outcome = "load_raised"
    /\ processed[Len(processed)].outcome = "ok"
    /\ Len(rows) >= 1
    /\ grand_total > 0

\* Some path argument is a regular file, or a directory holding an entry
\* whose name ends with "." and one of the lower-cased extensions.
SomethingDiscovered ==
    collected(args.paths, lower_all(args.ext), args.recursive) # {}

\* C3 as stated: the exit code is 2 exactly when the threshold is outside
\* [0,255], and then nothing is discovered, loaded or classified; it is 1
\* exactly when the threshold is valid and no file is discovered; otherwise
\* it is 0, also when files fail to decode.
C3_ExitCodes ==
    LET outside == args.threshold < 0 \/ args.threshold > 255
    IN  /\ pc # "exited" => exit_code = NotExited
        /\ pc = "exited" =>
            /\ exit_code \in {0, 1, 2}
            /\ exit_code = 2 <=> outside
            /\ exit_code = 2 => files = << >> /\ processed = << >> /\ rows = << >>
            /\ exit_code = 1 <=> ~outside /\ ~SomethingDiscovered
            /\ exit_code = 0 <=> ~outside /\ SomethingDiscovered

\* The interpreter printed the traceback of an exception nothing caught.
UncaughtException == \E i \in 1..Len(stderr) : stderr[i].kind = "Traceback"

\* C3 amended: the exit code is 2 exactly when the threshold is outside
\* [0,255], and then nothing is discovered, loaded or classified; it is 1
\* exactly when the threshold is valid and either no file is discovered or
\* an exception that nothing catches ends the run; otherwise it is 0, also
\* when files fail to decode.  The loop catches what loading, classifying
\* and printing a file's line raise, so that an uncaught exception comes only
\* from the CSV step, which runs only when --csv is given and a row was
\* collected; it does come whenever the CSV path is an existing directory.
C3_ExitCodesWithCsv ==
    LET outside == args.threshold < 0 \/ args.threshold > 255
    IN  /\ pc # "exited" => exit_code = NotExited /\ ~UncaughtException
        /\ pc = "exited" =>
            /\ exit_code \in {0, 1, 2}
            /\ exit_code = 2 <=> outside
            /\ exit_code = 2 => files = << >> /\ processed = << >> /\ rows = << >>
            /\ exit_code = 1 <=>
                  ~outside /\ (~SomethingDiscovered \/ UncaughtException)
            /\ exit_code = 0 <=>
                  ~outside /\ SomethingDiscovered /\ ~UncaughtException
            /\ UncaughtException =>
                  SomethingDiscovered /\ args.csv # << >> /\ rows # << >>
            /\ (args.csv # << >> /\ rows # << >> /\ resolve(args.csv) \in Dirs)
                  => UncaughtException

\* A run that ended with exit code 1 after the loop: a file failed to
\* decode, another gave a row, and --csv names a directory.
C3_Witness ==
    /\ pc = "exited" /\ exit_code = 1
    /\ Len(processed) >= 2
    /\ \E i \in 1..Len(processed) : processed[i].outcome = "load_raised"
    /\ rows # << >>
    /\ args.csv = << n_d >>
    /\ UncaughtException
    /\ csv_file = [written |-> FALSE]
    /\ LinesOf("INFO") = {}

\* The number of pixels of an array with a channel value strictly below v.
PixelsBelow(img, v) ==
    Cardinality({ i \in DOMAIN img.px : \E k \in 1..img.c : img.px[i][k] < v })

\* C4: for an 8-bit or 16-bit array and a threshold T in [0,255],
\* nonwhite_count is the number of pixels with a channel value strictly
\* below T (8-bit) or T * 257 (16-bit), and bit_depth is 8 or 16 accordingly.
C4_CountIsPixelsBelowThreshold ==
    (/\ stage = "counted"
     /\ loaded.img.dtype \in {"uint8", "uint16"}
     /\ threshold_8bit \in 0..255)
    => /\ loaded.img.dtype = "uint8"
            => result[1] = PixelsBelow(loaded.img, threshold_8bit) /\ result[3] = 8
       /\ loaded.img.dtype = "uint16"
            => result[1] = PixelsBelow(loaded.img, threshold_8bit * 257) /\ result[3] = 16

\* A 16-bit colour array counted at threshold 250 with one pixel of each kind:
\* 64249 is below 250 * 257 and above 250 * 256.
C4_Witness ==
    /\ stage = "counted"
    /\ loaded.img.dtype = "uint16" /\ loaded.img.c = 3
    /\ threshold_8bit = 250
    /\ result = << 1, 2, 16 >>

\* C5: total_pixels is height * width whatever the number of channels and
\* whatever the threshold, nonwhite_count + white_count = total_pixels, and
\* so 0 <= nonwhite_count <= total_pixels.
C5_TotalIsHeightTimesWidth ==
    stage = "counted" =>
        LET img == IF loaded.img.dtype \in {"uint8", "uint16"} THEN loaded.img
                   ELSE normalize_to_uint8(loaded.img)
            thr == IF img.dtype = "uint16" THEN threshold_8bit * 257 ELSE threshold_8bit
            whites == Cardinality({ i \in 1..(img.h * img.w) :
                                      \A k \in 1..img.c : img.px[i][k] >= thr })
        IN  /\ result[2] = loaded.img.h * loaded.img.w
            /\ result[1] + whites = result[2]
            /\ 0 <= result[1] /\ result[1] <= result[2]

\* A 3-channel array of two pixels, one white and one not.
C5_Witness ==
    /\ stage = "counted"
    /\ loaded.img.ndim = 3 /\ loaded.img.c = 3
    /\ result[2] = 2 /\ result[1] = 1

\* An array with its 4th channel removed.
WithoutChannel4(img) ==
    [img EXCEPT !.c = 3,
                !.px = [i \in DOMAIN img.px |->
                           << img.px[i][1], img.px[i][2], img.px[i][3] >>]]

\* C6: for a 4-channel array and a threshold in [0,255], loading then
\* counting gives the result of loading then counting the same array with
\* its 4th channel removed.
C6_AlphaIgnored ==
    (/\ stage = "counted"
     /\ decoded.ndim = 3 /\ decoded.c = 4
     /\ threshold_8bit \in 0..255)
    => result = count_nonwhite_pixels(
                    load_bgr_drop_alpha(WithoutChannel4(decoded)).img, threshold_8bit)

\* A counted 8-bit BGRA array with a pixel whose colour channels are all 255
\* and whose alpha is 0, at threshold 250: the pixel is white only if alpha
\* is ignored.
C6_Witness ==
    /\ stage = "counted"
    /\ decoded.ndim = 3 /\ decoded.c = 4 /\ decoded.dtype = "uint8"
    /\ threshold_8bit = 250
    /\ \E i \in DOMAIN decoded.px : decoded.px[i] = << 255, 255, 255, 0 >>
    /\ result[1] < result[2]

\* C7: with threshold 0, nonwhite_count is 0 for every array.
C7_ThresholdZeroCountsNothing ==
    (stage = "counted" /\ threshold_8bit = 0) => result[1] = 0

\* A counted array at threshold 0 that has a pixel with a channel value 0.
C7_Witness ==
    /\ stage = "counted" /\ threshold_8bit = 0
    /\ decoded.dtype = "uint8" /\ decoded.c = 3
    /\ \E i \in DOMAIN decoded.px : decoded.px[i] = << 0, 0, 0 >>
    /\ result[2] = 2

\* C8: in a run that reached the batch loop and ended, the TOTAL line is
\* printed, after all per-file lines, if and only if at least one file was
\* processed successfully, whatever the number of pixels of those files.
C8_TotalIffAnySuccess ==
    (pc = "exited" /\ files # << >>) =>
        /\ LinesOf("TOTAL") # {}
              <=> \E i \in 1..Len(processed) : processed[i].outcome = "ok"
        /\ \A t \in LinesOf("TOTAL") : \A i \in LinesOf("file") : i < t

\* The extension of a file name: what follows its last ".".
Ext(name) ==
    LET dots == { i \in 1..Len(name) : name[i] = "." }
        last == CHOOSE i \in dots : \A j \in dots : j <= i
    IN  IF dots = {} THEN << >> ELSE SubSeq(name, last + 1, Len(name))

\* The regular files in the directories searched for the path arguments.
Searched ==
    { e \in RegularFiles :
        \E i \in 1..Len(args.paths) :
            /\ is_dir(args.paths[i])
            /\ IF args.recursive THEN IsPrefix(args.paths[i], Parent(e))
                                 ELSE Parent(e) = args.paths[i] }

\* C9: when every path argument is a directory, a file of a searched
\* directory is discovered if and only if its extension equals, ignoring
\* letter case, one of the extensions given with -e/--ext.
C9_ExtensionFilterIgnoresCase ==
    (/\ pc = "loop"
     /\ \A i \in 1..Len(args.paths) : is_dir(args.paths[i]))
    => \A e \in Searched :
          e \in Range(files)
          <=> \E k \in 1..Len(args.ext) : lower(Ext(Name(e))) = lower(args.ext[k])

\* C10: the files of the loop's iterations are in strictly ascending order of
\* resolved absolute path, so that no resolved path is processed twice, and
\* the stdout lines and the CSV rows follow the same order.
C10_OncePerFileInPathOrder ==
    /\ \A i \in 1..Len(processed) : \A j \in 1..Len(processed) :
          i < j => PathLess(resolve(processed[i].file), resolve(processed[j].file))
    /\ \A i \in 1..Len(rows) : \A j \in 1..Len(rows) :
          i < j => PathLess(resolve(rows[i].path), resolve(rows[j].path))
    /\ [i \in 1..Len(rows) |-> Name(rows[i].path)]
         = [i \in 1..Cardinality(LinesOf("file")) |-> stdout[i].name]

\* A finished recursive run in which a.jpg was reached through two extension
\* globs of the directory and through the link argument z.jpg, given after the
\* directory: three files were processed, each with a line and a row.
C10_Witness ==
    /\ pc = "exited" /\ exit_code = 0
    /\ args.paths = << << n_d >>, << n_d, n_z_jpg >> >>
    /\ args.ext = << << "j", "p", "g" >>, << "J", "P", "G" >> >>
    /\ Len(processed) = 3
    /\ processed[1].file = << n_d, n_a_jpg >>
    /\ Len(rows) = 3
    /\ Cardinality(LinesOf("file")) = 3

====
